---- MODULE Spec2Model ----
(***************************************************************************)
(* Model of payload_dumper.py: the OTA payload header check, the selection *)
(* and submission of partitions to the process pool, the partition worker  *)
(* (dump_part), the operation executor (data_for_op) and the embedded      *)
(* bsdiff/BSDF2 patch reader.                                              *)
(*                                                                         *)
(* Files are byte sequences; a byte is a number 0..255.  A file offset is  *)
(* 0-based as in the code, a sequence index is 1-based.  Writes of the     *)
(* output handle are modelled as reaching the file at once (the buffering  *)
(* of the Python file objects is not modelled).                            *)
(***************************************************************************)
EXTENDS Integers, Sequences, FiniteSets, TLC

VARIABLES
    args,       \* the parsed command line: out, old, diff, images, workers
    payload,    \* the payload file: the magic and version bytes of its header
    manifest,   \* the decoded manifest: block_size and the partitions
    disk,       \* the image files: path -> [exists, data]
    mainPc,     \* where main is: "start", "parsed", "collect", "done", "aborted"
    mainErr,    \* the exception that ended main, "" if none
    futures,    \* the submitted workers, in submission order
    reported    \* indices of the futures whose outcome main has printed

vars == <<args, payload, manifest, disk, mainPc, mainErr, futures, reported>>

----------------------------------------------------------------------------
(* Bounds of the model *)

\* longest operation list of a partition
MaxOps == 2

\* largest block size of a manifest
MaxBlockSize == 2

\* largest --workers
MaxWorkers == 2

----------------------------------------------------------------------------
(* Byte sequences and files *)

Min(a, b) == IF a < b THEN a ELSE b

Max(a, b) == IF a > b THEN a ELSE b

\* file.seek(off); file.read(n): at most n bytes, fewer at the end of the file
ReadAt(file, off, n) ==
    IF n <= 0 \/ off >= Len(file) THEN << >>
    ELSE SubSeq(file, off + 1, Min(off + n, Len(file)))

\* file.seek(off); file.read(): everything from off on
ReadRest(file, off) ==
    IF off >= Len(file) THEN << >> ELSE SubSeq(file, off + 1, Len(file))

\* file.seek(off); file.write(data): random-access write; a gap between the
\* end of the file and off reads as zero bytes
WriteAt(file, off, data) ==
    IF data = << >> THEN file
    ELSE [i \in 1..Max(Len(file), off + Len(data)) |->
            IF i > off /\ i <= off + Len(data) THEN data[i - off]
            ELSE IF i <= Len(file) THEN file[i]
            ELSE 0]

\* b'\x00' * n
Zeros(n) == [i \in 1..n |-> 0]

RECURSIVE Concat(_)
\* the concatenation of a sequence of byte sequences
Concat(ss) == IF ss = << >> THEN << >> ELSE Head(ss) \o Concat(Tail(ss))

----------------------------------------------------------------------------
(* Hashing and the whole-operation decompressors (external libraries) *)

RECURSIVE Checksum(_, _, _)
\* a position-weighted checksum of data[lo..hi], by halves
Checksum(data, lo, hi) ==
    IF lo > hi THEN 0
    ELSE IF lo = hi THEN ((lo * lo + 7) * (data[lo] + 1)) % 65521
    ELSE (Checksum(data, lo, (lo + hi) \div 2)
          + Checksum(data, (lo + hi) \div 2 + 1, hi)) % 65521

\* hashlib.sha256(data).digest(): a digest of the bytes (a checksum stands
\* in for SHA-256: equal data give equal digests, the digest is not the data)
Sha256(data) == << Len(data), Checksum(data, 1, Len(data)) >>

\* The first byte by which each compressed format is recognised
MagicOf(codec) ==
    CASE codec = "xz"     -> 253
      [] codec = "bz2"    -> 66
      [] codec = "zstd"   -> 40
      [] codec = "brotli" -> 27

RECURSIVE RunLengthDecode(_)
\* pairs (count, byte) -> count copies of byte
RunLengthDecode(s) ==
    IF s = << >> THEN << >>
    ELSE [i \in 1..s[1] |-> s[2]] \o RunLengthDecode(SubSeq(s, 3, Len(s)))

\* The outcome of a call that returns bytes: r is "ok" (data holds the
\* bytes), "raise" (the call raised) or "none" (the call returned None)
Bytes(data) == [r |-> "ok", data |-> data]

Raised == [r |-> "raise", data |-> << >>]

ReturnedNone == [r |-> "none", data |-> << >>]

\* A decompressor of one format: it accepts only a stream that starts with
\* the format's magic and is well formed, and yields the decoded bytes; any
\* other input raises.  The formats themselves are not modelled: each is a
\* run-length code behind its magic byte.
Decompress(codec, data) ==
    IF Len(data) >= 1 /\ data[1] = MagicOf(codec) /\ (Len(data) - 1) % 2 = 0
    THEN Bytes(RunLengthDecode(Tail(data)))
    ELSE Raised

----------------------------------------------------------------------------
(* Integer decoding *)

\* A stand-in for every value of 2^24 or more: such a value exceeds every
\* length of the model, and only that is ever asked of it
Huge == 256 * 65536

\* struct.unpack('>Q', x)[0]: 8 bytes, big-endian, unsigned
u64(x) ==
    IF \E i \in 1..5 : x[i] # 0 THEN Huge
    ELSE x[6] * 65536 + x[7] * 256 + x[8]

\* bsdiff4.core.decode_int64: 8 bytes, little-endian magnitude, the sign in
\* the top bit of the last byte; any other length raises (ok = FALSE)
decode_int64(b) ==
    IF Len(b) # 8 THEN [ok |-> FALSE, v |-> 0]
    ELSE LET mag == IF (\E i \in 4..7 : b[i] # 0) \/ b[8] % 128 # 0 THEN Huge
                    ELSE b[1] + b[2] * 256 + b[3] * 65536
         IN  [ok |-> TRUE, v |-> IF b[8] >= 128 THEN 0 - mag ELSE mag]

----------------------------------------------------------------------------
(* The embedded patch format *)

\* b'BSDF2'
BSDF2_MAGIC == << 66, 83, 68, 70, 50 >>

\* bsdiff4.format.MAGIC = b'BSDIFF40'
BSDIFF_MAGIC == << 66, 83, 68, 73, 70, 70, 52, 48 >>

\* bsdf2_decompress(alg, data): for an algorithm other than 0, 1, 2 the
\* function falls off its end and returns None
bsdf2_decompress(alg, data) ==
    IF alg = 0 THEN Bytes(data)
    ELSE IF alg = 1 THEN Decompress("bz2", data)
    ELSE IF alg = 2 THEN Decompress("brotli", data)
    ELSE ReturnedNone

\* fi.read(n) at position pos of the blob: a negative n reads to the end
BlobRead(blob, pos, n) ==
    IF n < 0 THEN ReadRest(blob, pos) ELSE ReadAt(blob, pos, n)

\* the list comprehension of bsdf2_read_patch over the decompressed control
\* block: ok = FALSE when a slice is not 8 bytes long (decode_int64 raises)
ControlTriplets(bcontrol) ==
    LET n == (Len(bcontrol) + 23) \div 24
        int(k, j) == decode_int64(ReadAt(bcontrol, 24 * (k - 1) + 8 * (j - 1), 8))
    IN  IF \E k \in 1..n : \E j \in 1..3 : ~int(k, j).ok
        THEN [ok |-> FALSE, t |-> << >>]
        ELSE [ok |-> TRUE,
              t |-> [k \in 1..n |-> << int(k, 1).v, int(k, 2).v, int(k, 3).v >>]]

\* What bsdf2_read_patch yields when it raises
PatchError(e) ==
    [err |-> e, len_dst |-> 0, tcontrol |-> << >>,
     bdiff |-> Raised, bextra |-> Raised]

\* the algorithms of the three streams as the magic gives them
Algs(alg_control, alg_diff, alg_extra) ==
    [err |-> "ok", alg_control |-> alg_control, alg_diff |-> alg_diff,
     alg_extra |-> alg_extra]

\* What the magic check yields when it raises
MagicError(e) ==
    [err |-> e, alg_control |-> 0, alg_diff |-> 0, alg_extra |-> 0]

\* the magic check taking every magic that is not BSDF2 for the legacy one
PatchAlgs_Lenient(magic) ==
    IF ReadAt(magic, 0, 5) = BSDF2_MAGIC /\ magic # BSDIFF_MAGIC
    THEN IF Len(magic) < 8 THEN MagicError("IndexError")
         ELSE Algs(magic[6], magic[7], magic[8])
    ELSE Algs(1, 1, 1)

\* the magic check of bsdf2_read_patch on the bytes fi.read(8) returned:
\* the legacy magic means bzip2 for all three streams, b'BSDF2' is followed
\* by the algorithms of control, diff and extra; a magic cut short behind
\* b'BSDF2' is indexed out of range
PatchAlgs(magic) ==
    IF magic = BSDIFF_MAGIC THEN Algs(1, 1, 1)
    ELSE IF ReadAt(magic, 0, 5) = BSDF2_MAGIC
    THEN IF Len(magic) < 8 THEN MagicError("IndexError")
         ELSE Algs(magic[6], magic[7], magic[8])
    ELSE MagicError("ValueError: incorrect magic")

\* bsdf2_read_patch(fi): err = "ok" and (len_dst, tcontrol, bdiff, bextra),
\* or the error raised.  bdiff and bextra are outcomes of bsdf2_decompress:
\* a None among them is returned to the caller as it is.
bsdf2_read_patch(blob) ==
    LET algs == PatchAlgs(ReadAt(blob, 0, 8)) IN
    IF algs.err # "ok" THEN PatchError(algs.err)
    ELSE
    LET alg_control == algs.alg_control
        alg_diff == algs.alg_diff
        alg_extra == algs.alg_extra
        len_control == decode_int64(ReadAt(blob, 8, 8))
        len_diff == decode_int64(ReadAt(blob, 16, 8))
        len_dst == decode_int64(ReadAt(blob, 24, 8))
    IN
    IF ~len_control.ok \/ ~len_diff.ok \/ ~len_dst.ok
    THEN PatchError("ValueError: 8 bytes expected")
    ELSE
    LET rcontrol == BlobRead(blob, 32, len_control.v)
        pos1 == 32 + Len(rcontrol)
        bcontrol == bsdf2_decompress(alg_control, rcontrol)
        rdiff == BlobRead(blob, pos1, len_diff.v)
        pos2 == pos1 + Len(rdiff)
        bdiff == bsdf2_decompress(alg_diff, rdiff)
        bextra == bsdf2_decompress(alg_extra, ReadRest(blob, pos2))
    IN
    IF bcontrol.r = "raise" THEN PatchError("decompress error")
    ELSE IF bcontrol.r = "none" THEN PatchError("TypeError")
    ELSE IF ~ControlTriplets(bcontrol.data).ok
    THEN PatchError("ValueError: 8 bytes expected")
    ELSE IF bdiff.r = "raise" \/ bextra.r = "raise"
    THEN PatchError("decompress error")
    ELSE [err |-> "ok", len_dst |-> len_dst.v,
          tcontrol |-> ControlTriplets(bcontrol.data).t,
          bdiff |-> bdiff, bextra |-> bextra]

RECURSIVE PatchLoop(_, _, _, _, _, _, _, _)
\* the loop of bsdiff4.core.patch over the control triplets: the new bytes
\* built so far, the position in the old data and (ptrs) in the diff and
\* extra blocks; it raises when the patch overruns a block or the new length
PatchLoop(old, len_dst, control, diff, extra, new, oldpos, ptrs) ==
    IF control = << >>
    THEN IF Len(new) = len_dst THEN Bytes(new) ELSE Raised
    ELSE
    LET x == Head(control)[1]
        y == Head(control)[2]
        z == Head(control)[3]
        added == [j \in 1..x |->
                    IF oldpos + j - 1 >= 0 /\ oldpos + j - 1 < Len(old)
                    THEN (diff[ptrs[1] + j] + old[oldpos + j]) % 256
                    ELSE diff[ptrs[1] + j]]
    IN
    IF x < 0 \/ y < 0 THEN Raised
    ELSE IF Len(new) + x > len_dst \/ ptrs[1] + x > Len(diff) THEN Raised
    ELSE IF Len(new) + x + y > len_dst \/ ptrs[2] + y > Len(extra) THEN Raised
    ELSE PatchLoop(old, len_dst, Tail(control), diff, extra,
                   new \o added \o ReadAt(extra, ptrs[2], y),
                   oldpos + x + z, << ptrs[1] + x, ptrs[2] + y >>)

\* bsdiff4.core.patch(old_data, len_dst, tcontrol, bdiff, bextra): the new
\* bytes; a None for bdiff or bextra is a TypeError
patch(old, p) ==
    IF p.bdiff.r = "none" \/ p.bextra.r = "none" THEN Raised
    ELSE PatchLoop(old, p.len_dst, p.tcontrol, p.bdiff.data, p.bextra.data,
                   << >>, 0, << 0, 0 >>)

----------------------------------------------------------------------------
(* The operation executor: data_for_op *)

\* The operation types data_for_op dispatches on
ReplaceTypes == {"REPLACE", "REPLACE_XZ", "REPLACE_BZ", "ZSTD"}

BsdiffTypes == {"SOURCE_BSDIFF", "BROTLI_BSDIFF"}

DiffTypes == {"SOURCE_COPY"} \cup BsdiffTypes

SupportedTypes == ReplaceTypes \cup DiffTypes \cup {"ZERO"}

\* The errors that are SystemExit, which is no subclass of Exception
SystemExits == {"SystemExit: -1", "SystemExit: -2", "SystemExit: -3"}

\* the handle a worker holds on the payload: the bytes of the file and the
\* cursor of the handle
PayloadHandle(file, pos) == [data |-> file, pos |-> pos]

\* the seek left out: the cursor stays where the last read left it
PayloadSeek_Stay(payload_file, off) == payload_file

\* payload_file.seek(off)
PayloadSeek(payload_file, off) == [payload_file EXCEPT !.pos = off]

\* payload_file.read(n): the bytes at the cursor, and the handle with the
\* cursor behind them
PayloadRead(payload_file, n) ==
    LET data == ReadAt(payload_file.data, payload_file.pos, n) IN
    [data |-> data, file |-> [payload_file EXCEPT !.pos = @ + Len(data)]]

\* payload_file.seek(data_offset + op.data_offset);
\* payload_file.read(op.data_length)
ReadOpData(op, payload_file, data_offset) ==
    PayloadRead(PayloadSeek(payload_file, data_offset + op.data_offset),
                op.data_length)

\* the assert left out
HashOk_Unchecked(op, data) == TRUE

\* the condition of the assert: no hash declared, or the digest equals it
HashOk(op, data) ==
    op.data_sha256_hash = << >> \/ Sha256(data) = op.data_sha256_hash

\* the decoding step of the four replace types
ReplaceData(op, data) ==
    CASE op.type = "REPLACE_XZ" -> Decompress("xz", data)
      [] op.type = "ZSTD"       -> Decompress("zstd", data)
      [] op.type = "REPLACE_BZ" -> Decompress("bz2", data)
      [] op.type = "REPLACE"    -> Bytes(data)

\* the outcome of data_for_op: the error raised, or "ok", and the file system
Outcome(err, d) == [err |-> err, disk |-> d]

\* out_file.seek(off); out_file.write(data) on the file system
DiskWrite(d, outP, off, data) ==
    [d EXCEPT ![outP] = [exists |-> TRUE, data |-> WriteAt(@.data, off, data)]]

\* the replace types without the seek: the data go where the file ends
DoReplace_Append(op, data, d, outP, block_size) ==
    LET dec == ReplaceData(op, data) IN
    IF dec.r = "raise" THEN Outcome("decompress error", d)
    ELSE IF op.dst_extents = << >> THEN Outcome("IndexError", d)
    ELSE Outcome("ok", DiskWrite(d, outP, Len(d[outP].data), dec.data))

\* REPLACE, REPLACE_XZ, REPLACE_BZ, ZSTD: the decoded data in one run at
\* the first destination extent
DoReplace(op, data, d, outP, block_size) ==
    LET dec == ReplaceData(op, data) IN
    IF dec.r = "raise" THEN Outcome("decompress error", d)
    ELSE IF op.dst_extents = << >> THEN Outcome("IndexError", d)
    ELSE Outcome("ok", DiskWrite(d, outP,
                    op.dst_extents[1].start_block * block_size, dec.data))

RECURSIVE CopyLoop(_, _, _, _, _, _)
\* the loop of SOURCE_COPY over the source extents: each read of the old
\* image is written where the previous write ended
CopyLoop(exts, d, outP, oldP, pos, block_size) ==
    IF exts = << >> THEN d
    ELSE LET data == ReadAt(d[oldP].data, Head(exts).start_block * block_size,
                            Head(exts).num_blocks * block_size)
         IN  CopyLoop(Tail(exts), DiskWrite(d, outP, pos, data), outP, oldP,
                      pos + Len(data), block_size)

\* SOURCE_COPY that does nothing when there is no old image
DoSourceCopy_Skip(op, d, outP, old_file, block_size) ==
    IF ~old_file.open THEN Outcome("ok", d)
    ELSE IF op.dst_extents = << >> THEN Outcome("IndexError", d)
    ELSE Outcome("ok", CopyLoop(op.src_extents, d, outP, old_file.path,
                    op.dst_extents[1].start_block * block_size, block_size))

\* SOURCE_COPY
DoSourceCopy(op, d, outP, old_file, block_size) ==
    IF ~old_file.open THEN Outcome("SystemExit: -2", d)
    ELSE IF op.dst_extents = << >> THEN Outcome("IndexError", d)
    ELSE Outcome("ok", CopyLoop(op.src_extents, d, outP, old_file.path,
                    op.dst_extents[1].start_block * block_size, block_size))

\* the old data of a bsdiff operation: the source extents' bytes in order
OldData(exts, old, block_size) ==
    Concat([i \in 1..Len(exts) |->
              ReadAt(old, exts[i].start_block * block_size,
                     exts[i].num_blocks * block_size)])

RECURSIVE SplitLoop(_, _, _, _, _, _)
\* the loop of the bsdiff types over the destination extents: n blocks of
\* tmp_buff are consumed so far
SplitLoop(exts, tmp_buff, n, d, outP, block_size) ==
    IF exts = << >> THEN d
    ELSE SplitLoop(Tail(exts), tmp_buff, n + Head(exts).num_blocks,
            DiskWrite(d, outP, Head(exts).start_block * block_size,
                      ReadAt(tmp_buff, n * block_size,
                             Head(exts).num_blocks * block_size)),
            outP, block_size)

\* SOURCE_BSDIFF, BROTLI_BSDIFF: tmp_buff holds the old data, the patched
\* data is written over its beginning, and tmp_buff is split over the
\* destination extents
DoBsdiff(op, data, d, outP, old_file, block_size) ==
    IF ~old_file.open THEN Outcome("SystemExit: -3", d)
    ELSE IF op.dst_extents = << >> THEN Outcome("IndexError", d)
    ELSE
    LET old_data == OldData(op.src_extents, d[old_file.path].data, block_size)
        p == bsdf2_read_patch(data)
        new == patch(old_data, p)
    IN  IF p.err # "ok" THEN Outcome(p.err, d)
        ELSE IF new.r # "ok" THEN Outcome("patch error", d)
        ELSE Outcome("ok", SplitLoop(op.dst_extents,
                        WriteAt(old_data, 0, new.data), 0, d, outP, block_size))

RECURSIVE ZeroLoop_Blocks(_, _, _, _)
\* ZeroLoop writing num_blocks bytes for an extent, not num_blocks blocks
ZeroLoop_Blocks(exts, d, outP, block_size) ==
    IF exts = << >> THEN d
    ELSE ZeroLoop_Blocks(Tail(exts),
            DiskWrite(d, outP, Head(exts).start_block * block_size,
                      Zeros(Head(exts).num_blocks)),
            outP, block_size)

RECURSIVE ZeroLoop(_, _, _, _)
\* the loop of ZERO over the destination extents
ZeroLoop(exts, d, outP, block_size) ==
    IF exts = << >> THEN d
    ELSE ZeroLoop(Tail(exts),
            DiskWrite(d, outP, Head(exts).start_block * block_size,
                      Zeros(Head(exts).num_blocks * block_size)),
            outP, block_size)

\* ZERO
DoZero(op, d, outP, block_size) ==
    Outcome("ok", ZeroLoop(op.dst_extents, d, outP, block_size))

\* the dispatch of data_for_op on the operation type, after the hash check
Dispatch(op, data, d, outP, old_file, block_size) ==
    IF op.type \in ReplaceTypes THEN DoReplace(op, data, d, outP, block_size)
    ELSE IF op.type = "SOURCE_COPY"
    THEN DoSourceCopy(op, d, outP, old_file, block_size)
    ELSE IF op.type \in BsdiffTypes
    THEN DoBsdiff(op, data, d, outP, old_file, block_size)
    ELSE IF op.type = "ZERO" THEN DoZero(op, d, outP, block_size)
    ELSE Outcome("SystemExit: -1", d)

\* data_for_op(op, payload_file, out_file, old_file, data_offset, block_size)
\* on the file system d, out_file being a handle on outP: besides the error
\* and the file system, the bytes read from the payload and the cursor the
\* payload handle is left with
data_for_op(op, payload_file, d, outP, old_file, data_offset, block_size) ==
    LET rd  == ReadOpData(op, payload_file, data_offset)
        out == IF ~HashOk(op, rd.data)
               THEN Outcome("AssertionError: operation data hash mismatch", d)
               ELSE Dispatch(op, rd.data, d, outP, old_file, block_size)
    IN  [err |-> out.err, disk |-> out.disk, raw |-> rd.data,
         payload_pos |-> rd.file.pos]

----------------------------------------------------------------------------
(* The inputs: payload, manifest, command line, image files *)

\* The data section of the payload: the blobs the operations refer to by
\* (data_offset, data_length)
RawBlob == << 1, 2, 3, 4 >>

XzBlob == << 253, 2, 7, 1, 9 >>

ZstdBlob == << 40, 2, 5 >>

BzBlob == << 66, 1, 6, 1, 8 >>

\* n >= 0 as bsdiff encodes it
Int64(n) == << n, 0, 0, 0, 0, 0, 0, 0 >>

\* a BSDF2 patch, all three streams stored raw: new length 3; one triplet
\* (copy 2 adding the diff bytes 1, 1; insert 1 extra byte 9; seek 0)
PatchBlob ==
    BSDF2_MAGIC \o << 0, 0, 0 >> \o Int64(24) \o Int64(2) \o Int64(3)
    \o Int64(2) \o Int64(1) \o Int64(0) \o << 1, 1 >> \o << 9 >>

\* b"XXXXXXXX"
BadPatchBlob == << 88, 88, 88, 88, 88, 88, 88, 88 >>

\* the tail of PatchBlob behind the magic: the three lengths, the control
\* block, the diff block and the extra block, all stored raw
RawPatchTail ==
    Int64(24) \o Int64(2) \o Int64(3)
    \o Int64(2) \o Int64(1) \o Int64(0) \o << 1, 1 >> \o << 9 >>

\* PatchBlob with the algorithm 3 declared for the diff block
DiffAlgPatchBlob == BSDF2_MAGIC \o << 0, 3, 0 >> \o RawPatchTail

\* PatchBlob with the algorithm 7 declared for the control block
ControlAlgPatchBlob == BSDF2_MAGIC \o << 7, 0, 0 >> \o RawPatchTail

\* PatchBlob with the diff block, and only it, bzip2-coded
MixedPatchBlob ==
    BSDF2_MAGIC \o << 0, 1, 0 >> \o Int64(24) \o Int64(3) \o Int64(3)
    \o Int64(2) \o Int64(1) \o Int64(0) \o << 66, 2, 1 >> \o << 9 >>

\* the same patch in the legacy format: all three blocks bzip2-coded
LegacyPatchBlob ==
    BSDIFF_MAGIC \o Int64(9) \o Int64(3) \o Int64(3)
    \o << 66, 1, 2, 7, 0, 1, 1, 15, 0 >> \o << 66, 2, 1 >> \o << 66, 1, 9 >>

\* a BSDF2 patch cut short: it declares a diff block of 5 bytes and ends
\* after 2 of them; new length 2, one triplet (copy 2, insert 0, seek 0)
ShortPatchBlob ==
    BSDF2_MAGIC \o << 0, 0, 0 >> \o Int64(24) \o Int64(5) \o Int64(2)
    \o Int64(2) \o Int64(0) \o Int64(0) \o << 1, 1 >>

Blobs ==
    << RawBlob, XzBlob, ZstdBlob, BzBlob, PatchBlob, BadPatchBlob,
       DiffAlgPatchBlob, ControlAlgPatchBlob, MixedPatchBlob, LegacyPatchBlob,
       ShortPatchBlob >>

DataSection == Concat(Blobs)

\* where blob k starts in the data section
BlobOffset(k) == Len(Concat(SubSeq(Blobs, 1, k - 1)))

\* b'CrAU'
CrAU == << 67, 114, 65, 85 >>

\* The payload file with the given magic and version bytes: the manifest
\* is held decoded in the variable manifest, its bytes and the signature
\* are left out (both lengths 0)
PayloadFile(magic, version) ==
    magic \o version \o << 0, 0, 0, 0, 0, 0, 0, 0 >> \o << 0, 0, 0, 0 >>
    \o DataSection

\* The payload files of the model, by the first two fields of the header
GoodPayload == [magic |-> CrAU, version |-> << 0, 0, 0, 0, 0, 0, 0, 2 >>]

BadPayloads ==
    { [magic |-> << 67, 114, 65, 86 >>, version |-> << 0, 0, 0, 0, 0, 0, 0, 2 >>],
      [magic |-> CrAU, version |-> << 0, 0, 0, 0, 0, 0, 0, 1 >>],
      [magic |-> CrAU, version |-> << 0, 0, 0, 0, 0, 0, 0, 3 >>],
      [magic |-> CrAU, version |-> << 2, 0, 0, 0, 0, 0, 0, 0 >>] }

\* the bytes of the payload file
PayloadBytes == PayloadFile(payload.magic, payload.version)

Ext(start, num) == [start_block |-> start, num_blocks |-> num]

\* An operation on blob k; hash is "none", "good" or "bad"
Op(type, k, hash, src, dst) ==
    [type |-> type,
     data_offset |-> BlobOffset(k),
     data_length |-> Len(Blobs[k]),
     data_sha256_hash |->
        CASE hash = "none" -> << >>
          [] hash = "good" -> Sha256(Blobs[k])
          [] hash = "bad"  -> Sha256(Blobs[k] \o << 0 >>),
     src_extents |-> src,
     dst_extents |-> dst]

\* The operations a partition's list is drawn from
OpCatalog ==
    { Op("REPLACE", 1, "good", << >>, << Ext(0, 2) >>),
      Op("REPLACE", 1, "bad", << >>, << Ext(1, 1) >>),
      Op("REPLACE_XZ", 2, "good", << >>, << Ext(1, 2) >>),
      Op("REPLACE_BZ", 2, "none", << >>, << Ext(0, 1) >>),
      Op("ZSTD", 3, "none", << >>, << Ext(2, 1) >>),
      Op("ZERO", 1, "none", << >>, << Ext(0, 1), Ext(2, 1) >>),
      Op("ZERO", 1, "bad", << >>, << Ext(1, 1) >>),
      Op("SOURCE_COPY", 1, "none", << Ext(0, 2) >>, << Ext(0, 1), Ext(2, 1) >>),
      Op("SOURCE_COPY", 1, "none", << Ext(2, 1), Ext(0, 1) >>, << Ext(1, 2) >>),
      Op("SOURCE_COPY", 1, "bad", << Ext(0, 1) >>, << Ext(0, 1) >>),
      Op("SOURCE_BSDIFF", 5, "good", << Ext(0, 1), Ext(1, 1) >>,
         << Ext(0, 1), Ext(2, 1) >>),
      Op("BROTLI_BSDIFF", 6, "none", << Ext(0, 1) >>, << Ext(0, 1) >>),
      Op("BROTLI_BSDIFF", 5, "bad", << Ext(0, 1) >>, << Ext(0, 1) >>),
      Op("DISCARD", 1, "none", << >>, << Ext(0, 1) >>),
      Op("DISCARD", 1, "bad", << >>, << Ext(0, 1) >>) }

\* The sequences over S of length at most n
SeqsUpTo(S, n) == UNION { [1..k -> S] : k \in 0..n }

\* The partition names of the manifest, in manifest order
PartitionNames == << "boot", "system" >>

\* The contents of the old images, where they exist
OldImage(name) ==
    IF name = "boot" THEN << 11, 12, 13, 14 >> ELSE << 21, 22, 23 >>

\* The path of an image file
Path(dir, name) == << dir, name >>

Dirs == {"output", "old"}

Paths == { Path(dir, PartitionNames[i]) : dir \in Dirs, i \in 1..Len(PartitionNames) }

NoFile == [exists |-> FALSE, data |-> << >>]

File(data) == [exists |-> TRUE, data |-> data]

\* The image files before the run: the old images of the partitions in
\* have, in the directory old_dir; no other file
DiskBefore(old_dir, have) ==
    [p \in Paths |->
        IF p[1] = old_dir /\ p[2] \in have THEN File(OldImage(p[2])) ELSE NoFile]

\* The command lines: a full OTA, or a differential one with the old
\* images in their own directory or in the output directory
CommandLines(imageLists, workerCounts) ==
    { [out |-> "output", old |-> m[1], diff |-> m[2],
       images |-> im, workers |-> w] :
        m \in { << "old", FALSE >>, << "old", TRUE >>, << "output", TRUE >> },
        im \in imageLists, w \in workerCounts }

\* Runs of one partition on one worker, over every operation list
SingleInputs ==
    { [args |-> a, payload |-> GoodPayload,
       manifest |-> [block_size |-> bs,
                     ops |-> [n \in {"boot", "system"} |->
                                IF n = "boot" THEN ops ELSE << >>]],
       disk |-> DiskBefore(a.old, have)] :
        a \in CommandLines({ << "boot" >> }, {1}),
        bs \in 1..MaxBlockSize,
        ops \in SeqsUpTo(OpCatalog, MaxOps),
        have \in { {}, {"boot"} } }

\* The operation lists of the runs on the pool
PoolLists ==
    { << Op("REPLACE", 1, "good", << >>, << Ext(0, 2) >>) >>,
      << Op("REPLACE", 1, "bad", << >>, << Ext(0, 2) >>) >>,
      << Op("ZERO", 1, "none", << >>, << Ext(1, 1) >>),
         Op("SOURCE_COPY", 1, "none", << Ext(0, 1) >>, << Ext(0, 1) >>) >>,
      << Op("BROTLI_BSDIFF", 6, "none", << Ext(0, 1) >>, << Ext(0, 1) >>) >>,
      << Op("DISCARD", 1, "none", << >>, << Ext(0, 1) >>) >> }

\* The values of --images: all partitions (""), one, both, one twice, and
\* one that the payload does not hold
ImageLists ==
    { << >>, << "boot" >>, << "system", "boot" >>, << "boot", "boot" >>,
      << "vendor", "system" >> }

\* Runs of several partitions on the pool, with good and bad payload headers
PoolInputs ==
    { [args |-> a, payload |-> pl,
       manifest |-> [block_size |-> MaxBlockSize,
                     ops |-> [n \in {"boot", "system"} |->
                                IF n = "boot" THEN b ELSE s]],
       disk |-> DiskBefore(a.old, have)] :
        a \in CommandLines(ImageLists, 1..MaxWorkers),
        pl \in {GoodPayload} \cup BadPayloads,
        b \in PoolLists, s \in PoolLists,
        have \in { {}, {"boot", "system"} } }

\* The bsdiff operations on the further patches
PatchCatalog ==
    { Op(type, k, "none", << Ext(0, 1), Ext(1, 1) >>, << Ext(0, 1), Ext(2, 1) >>) :
        type \in BsdiffTypes, k \in 7..Len(Blobs) }

\* Differential runs of one partition on one worker, the old image present:
\* replace operations, then one bsdiff operation on one of the patches
PatchInputs ==
    { [args |-> a, payload |-> GoodPayload,
       manifest |-> [block_size |-> bs,
                     ops |-> [n \in {"boot", "system"} |->
                                IF n = "boot" THEN pre \o << op >> ELSE << >>]],
       disk |-> DiskBefore(a.old, {"boot"})] :
        a \in { c \in CommandLines({ << "boot" >> }, {1}) :
                  c.diff /\ c.old = "old" },
        bs \in 1..MaxBlockSize,
        pre \in SeqsUpTo({ Op("REPLACE", 1, "good", << >>, << Ext(0, 2) >>) },
                         MaxOps - 1),
        op \in PatchCatalog }

Inputs == SingleInputs \cup PoolInputs \cup PatchInputs

----------------------------------------------------------------------------
(* main: header, selection, submission, collection *)

\* the header check without the assertion on the version
HeaderError_MagicOnly(file) ==
    IF ReadAt(file, 0, 4) # CrAU
    THEN "AssertionError: Invalid magic header, not an OTA payload"
    ELSE ""

\* The assertion of main that fails on the header, "" if none does
HeaderError(file) ==
    IF ReadAt(file, 0, 4) # CrAU
    THEN "AssertionError: Invalid magic header, not an OTA payload"
    ELSE IF u64(ReadAt(file, 4, 8)) # 2
    THEN "AssertionError: Unsupported file format version"
    ELSE ""

\* payload_file.tell() after the manifest and its signature are read
DataOffset(file) == 24 + u64(ReadAt(file, 12, 8))

RECURSIVE SelectImages(_, _)
\* the loop over args.images.split(","): the named partitions in the order
\* of the list, a name the manifest lacks being skipped
SelectImages(images, names) ==
    IF images = << >> THEN << >>
    ELSE (IF \E i \in 1..Len(names) : names[i] = Head(images)
          THEN << Head(images) >> ELSE << >>)
         \o SelectImages(Tail(images), names)

\* partitions_to_process, by name
PartitionsToProcess(images, names) ==
    IF images = << >> THEN names ELSE SelectImages(images, names)

\* a handle that is not open (old_file = None)
NoHandle == [open |-> FALSE, path |-> << >>]

Handle(path) == [open |-> TRUE, path |-> path]

\* A submitted call of dump_part and the locals of the worker running it:
\* the cursor of its payload handle, the bytes its last read returned, its
\* two image handles, the exception it raised and the value it returned
Future(name) ==
    [name |-> name, state |-> "Pending", completed |-> 0,
     payload_pos |-> 0, raw |-> << >>,
     out_file |-> NoHandle, old_file |-> NoHandle, err |-> "", result |-> ""]

Running == { i \in 1..Len(futures) : futures[i].state = "Running" }

Finished == { i \in 1..Len(futures) : futures[i].state \in {"Completed", "Failed"} }

\* main reads the header: a failed assertion ends the run
ParseHeader ==
    /\ mainPc = "start"
    /\ IF HeaderError(PayloadBytes) # ""
       THEN mainPc' = "aborted" /\ mainErr' = HeaderError(PayloadBytes)
       ELSE mainPc' = "parsed" /\ mainErr' = ""
    /\ UNCHANGED <<args, payload, manifest, disk, futures, reported>>

\* main selects the partitions and submits one call of dump_part for each
Submit ==
    /\ mainPc = "parsed"
    /\ futures' = [i \in 1..Len(PartitionsToProcess(args.images, PartitionNames)) |->
                     Future(PartitionsToProcess(args.images, PartitionNames)[i])]
    /\ mainPc' = "collect"
    /\ UNCHANGED <<args, payload, manifest, disk, mainErr, reported>>

\* except Exception: SystemExit is not caught
Caught(err) == err \notin SystemExits

\* main takes a finished future from as_completed and prints its outcome;
\* an exception that is no Exception leaves the loop and ends main, the
\* pool still running what was submitted (shutdown waits)
Collect(i) ==
    /\ mainPc = "collect"
    /\ i \in Finished \ reported
    /\ IF futures[i].state = "Failed" /\ ~Caught(futures[i].err)
       THEN mainPc' = "aborted" /\ mainErr' = futures[i].err
            /\ reported' = reported
       ELSE reported' = reported \cup {i} /\ UNCHANGED <<mainPc, mainErr>>
    /\ UNCHANGED <<args, payload, manifest, disk, futures>>

\* as_completed is exhausted: every future was reported
MainDone ==
    /\ mainPc = "collect"
    /\ reported = 1..Len(futures)
    /\ mainPc' = "done"
    /\ UNCHANGED <<args, payload, manifest, disk, mainErr, futures, reported>>

----------------------------------------------------------------------------
(* The partition worker: dump_part *)

\* the old image handle dump_part opens, on the file system d as it is
\* after the output image was opened
OpenOld(d, use_diff, old_dir, name) ==
    IF use_diff /\ d[Path(old_dir, name)].exists
    THEN Handle(Path(old_dir, name))
    ELSE NoHandle

\* open(path, 'wb'): the file is created, or truncated
OpenWb(d, path) == [d EXCEPT ![path] = File(<< >>)]

\* A pool process takes the next call from the queue and enters dump_part:
\* it opens the payload for itself, then the output image, then the old
\* image if there is one
StartPart(i) ==
    /\ mainPc \in {"collect", "aborted"}
    /\ i \in 1..Len(futures)
    /\ futures[i].state = "Pending"
    /\ \A j \in 1..(i - 1) : futures[j].state # "Pending"
    /\ Cardinality(Running) < args.workers
    /\ disk' = OpenWb(disk, Path(args.out, futures[i].name))
    /\ futures' = [futures EXCEPT ![i] =
            [@ EXCEPT !.state = "Running",
                      !.payload_pos = 0,
                      !.out_file = Handle(Path(args.out, futures[i].name)),
                      !.old_file = OpenOld(disk', args.diff, args.old,
                                           futures[i].name)]]
    /\ UNCHANGED <<args, payload, manifest, mainPc, mainErr, reported>>

\* the worker going on to the next operation after an error
AfterOp_Continue(w, err) == [w EXCEPT !.completed = @ + 1]

\* the worker after an operation returned or raised
AfterOp(w, err) ==
    IF err = "ok" THEN [w EXCEPT !.completed = @ + 1]
    ELSE [w EXCEPT !.state = "Failed", !.err = err]

\* the next operation of worker i
NextOp(i) == manifest.ops[futures[i].name][futures[i].completed + 1]

\* what data_for_op does for the next operation of worker i
OpOutcome(i) ==
    data_for_op(NextOp(i), PayloadHandle(PayloadBytes, futures[i].payload_pos),
                disk, Path(args.out, futures[i].name),
                futures[i].old_file, DataOffset(PayloadBytes), manifest.block_size)

\* One pass of the loop of dump_part: the next operation is executed
RunOp(i) ==
    /\ i \in Running
    /\ futures[i].completed < Len(manifest.ops[futures[i].name])
    /\ disk' = OpOutcome(i).disk
    /\ futures' = [futures EXCEPT ![i] =
            [AfterOp(@, OpOutcome(i).err) EXCEPT
                !.raw = OpOutcome(i).raw,
                !.payload_pos = OpOutcome(i).payload_pos]]
    /\ UNCHANGED <<args, payload, manifest, mainPc, mainErr, reported>>

\* the old image handle left open at the return
Returned_OldLeftOpen(w) ==
    [w EXCEPT !.state = "Completed", !.out_file = NoHandle, !.result = w.name]

\* the worker after out_file.close(), old_file.close() and
\* return part.partition_name
Returned(w) ==
    [w EXCEPT !.state = "Completed", !.out_file = NoHandle,
              !.old_file = NoHandle, !.result = w.name]

\* The loop is over: the handles are closed and the name is returned
FinishPart(i) ==
    /\ i \in Running
    /\ futures[i].completed = Len(manifest.ops[futures[i].name])
    /\ futures' = [futures EXCEPT ![i] = Returned(@)]
    /\ UNCHANGED <<args, payload, manifest, disk, mainPc, mainErr, reported>>

----------------------------------------------------------------------------
(* The specification *)

Init ==
    /\ \E in \in Inputs :
        /\ args = in.args
        /\ payload = in.payload
        /\ manifest = in.manifest
        /\ disk = in.disk
    /\ mainPc = "start"
    /\ mainErr = ""
    /\ futures = << >>
    /\ reported = {}

\* at most this many calls are submitted
MaxFutures == Len(PartitionNames)

Next ==
    \/ ParseHeader
    \/ Submit
    \/ \E i \in 1..MaxFutures : StartPart(i)
    \/ \E i \in 1..MaxFutures : RunOp(i)
    \/ \E i \in 1..MaxFutures : FinishPart(i)
    \/ \E i \in 1..MaxFutures : Collect(i)
    \/ MainDone

Spec == Init /\ [][Next]_vars

----------------------------------------------------------------------------
(* Notions the properties below are stated in *)

\* the output image file of future i
OutPath(i) == Path(args.out, futures[i].name)

\* the old image file of future i
OldPath(i) == Path(args.old, futures[i].name)

\* future i is about to execute an operation
AtOp(i) ==
    /\ futures[i].state = "Running"
    /\ futures[i].completed < Len(manifest.ops[futures[i].name])

\* this step is worker i executing its next operation
ExecutesOp(i) == AtOp(i) /\ futures'[i] # futures[i]

\* the bytes the next operation of worker i refers to in the payload
RawOf(i) ==
    ReadAt(PayloadBytes, DataOffset(PayloadBytes) + NextOp(i).data_offset,
           NextOp(i).data_length)

\* the next operation of worker i declares a hash that its data do not have
HashMismatch(i) ==
    /\ NextOp(i).data_sha256_hash # << >>
    /\ Sha256(RawOf(i)) # NextOp(i).data_sha256_hash

----------------------------------------------------------------------------
(* C1 *)

\* C1: an operation of any type whose declared SHA-256 differs from the
\* digest of its data fails with the hash-mismatch error, and no image
\* file is changed by it.
C1_HashGate ==
    [][\A i \in 1..Len(futures) :
          (ExecutesOp(i) /\ HashMismatch(i)) =>
              /\ futures'[i].state = "Failed"
              /\ futures'[i].err = "AssertionError: operation data hash mismatch"
              /\ disk' = disk]_vars

\* a ZERO or unsupported operation failed on its hash after an earlier
\* operation had written the image
C1_Witness ==
    \E i \in 1..Len(futures) :
        /\ futures[i].state = "Failed"
        /\ futures[i].err = "AssertionError: operation data hash mismatch"
        /\ futures[i].completed >= 1
        /\ NextOp(i).type \in {"ZERO", "DISCARD"}
        /\ disk[OutPath(i)].data # << >>

----------------------------------------------------------------------------
(* C2 *)

RECURSIVE BlocksBefore(_, _)
\* the number of blocks of the first k - 1 extents
BlocksBefore(exts, k) ==
    IF k <= 1 THEN 0
    ELSE BlocksBefore(exts, k - 1) + exts[k - 1].num_blocks

\* C2: after a SOURCE_COPY with an old image (in a directory of its own,
\* and holding every source extent in full), each destination extent d_k
\* holds the slice of the concatenated source bytes that starts at the
\* byte length of d_1..d_(k-1) and has the byte length of d_k.
C2_SourceCopySplit ==
    [][\A i \in 1..Len(futures) :
          (/\ ExecutesOp(i)
           /\ NextOp(i).type = "SOURCE_COPY"
           /\ futures'[i].completed = futures[i].completed + 1
           /\ args.old # args.out
           /\ \A k \in 1..Len(NextOp(i).src_extents) :
                 (NextOp(i).src_extents[k].start_block
                  + NextOp(i).src_extents[k].num_blocks) * manifest.block_size
                 <= Len(disk[OldPath(i)].data))
          =>
          LET op == NextOp(i)
              bs == manifest.block_size
              C == OldData(op.src_extents, disk[OldPath(i)].data, bs)
          IN  \A k \in 1..Len(op.dst_extents) :
                  ReadAt(disk'[OutPath(i)].data,
                         op.dst_extents[k].start_block * bs,
                         op.dst_extents[k].num_blocks * bs)
                  = ReadAt(C, BlocksBefore(op.dst_extents, k) * bs,
                           op.dst_extents[k].num_blocks * bs)]_vars

----------------------------------------------------------------------------
(* C3 *)

\* C3: a SOURCE_COPY, SOURCE_BSDIFF or BROTLI_BSDIFF operation executed
\* with no old image handle fails and changes no image file, and the
\* failed worker stays failed: it never completes.
C3_NoOldImageFails ==
    [][\A i \in 1..Len(futures) :
          /\ (ExecutesOp(i) /\ NextOp(i).type \in DiffTypes
              /\ ~futures[i].old_file.open)
             => (futures'[i].state = "Failed" /\ disk' = disk)
          /\ futures[i].state = "Failed" => futures'[i].state = "Failed"]_vars

\* a differential operation failed for want of the old image, after an
\* earlier operation had written the image
C3_Witness ==
    \E i \in 1..Len(futures) :
        /\ futures[i].state = "Failed"
        /\ futures[i].err \in {"SystemExit: -2", "SystemExit: -3"}
        /\ ~futures[i].old_file.open
        /\ futures[i].completed >= 1
        /\ disk[OutPath(i)].data # << >>

----------------------------------------------------------------------------
(* C4 *)

\* C4: when main has ended after submitting workers, it has reported the
\* outcome of every one of them.
C4_AllOutcomesReported ==
    (mainPc \in {"done", "aborted"} /\ futures # << >>)
        => reported = 1..Len(futures)

----------------------------------------------------------------------------
(* C5 *)

\* the 1-based positions of the image that the extents cover
Covered(exts, bs) ==
    UNION { (exts[k].start_block * bs + 1)
              ..((exts[k].start_block + exts[k].num_blocks) * bs) :
            k \in 1..Len(exts) }

\* C5: after a ZERO operation whose hash check passes, every byte of every
\* destination extent exists and is zero, and no byte that the image held
\* before the operation outside the destination extents is changed; no
\* other file is changed.
C5_ZeroExtents ==
    [][\A i \in 1..Len(futures) :
          (ExecutesOp(i) /\ NextOp(i).type = "ZERO" /\ ~HashMismatch(i))
          =>
          LET cov == Covered(NextOp(i).dst_extents, manifest.block_size)
              before == disk[OutPath(i)].data
              after == disk'[OutPath(i)].data
          IN  /\ futures'[i].completed = futures[i].completed + 1
              /\ \A j \in cov : j <= Len(after) /\ after[j] = 0
              /\ \A j \in (1..Len(before)) \ cov :
                    j <= Len(after) /\ after[j] = before[j]
              /\ \A p \in Paths \ {OutPath(i)} : disk'[p] = disk[p]]_vars

\* a ZERO operation over two separate extents has zeroed bytes that an
\* earlier REPLACE had written, and left the bytes between them
C5_Witness ==
    \E i \in 1..Len(futures) :
        /\ futures[i].completed = 2
        /\ manifest.ops[futures[i].name][1].type = "REPLACE"
        /\ manifest.ops[futures[i].name][2].type = "ZERO"
        /\ Len(manifest.ops[futures[i].name][2].dst_extents) = 2
        /\ manifest.block_size = MaxBlockSize
        /\ \E j \in 1..Len(disk[OutPath(i)].data) :
              disk[OutPath(i)].data[j] # 0

----------------------------------------------------------------------------
(* C6 *)

\* C6: a worker executes its operations one at a time in order (its count
\* of completed operations grows by one at a time); an operation that
\* fails makes the worker Failed without being counted; a Failed worker
\* takes no further step; and an image file is changed only in a step of a
\* worker of that image that has not failed.
C6_SequentialAbort ==
    [][/\ \A i \in 1..Len(futures) :
            /\ futures'[i].completed \in
                  {futures[i].completed, futures[i].completed + 1}
            /\ (ExecutesOp(i) /\ OpOutcome(i).err # "ok")
                  => /\ futures'[i].state = "Failed"
                     /\ futures'[i].completed = futures[i].completed
            /\ futures[i].state = "Failed" => futures'[i] = futures[i]
       /\ \A p \in Paths :
            disk'[p] # disk[p] =>
                \E i \in 1..Len(futures) :
                    /\ futures[i].state \in {"Pending", "Running"}
                    /\ OutPath(i) = p
                    /\ futures'[i] # futures[i]]_vars

\* a worker failed at an operation that is not its last, the later one was
\* never executed, and main has finished
C6_Witness ==
    \E i \in 1..Len(futures) :
        /\ futures[i].state = "Failed"
        /\ futures[i].completed + 1 < Len(manifest.ops[futures[i].name])
        /\ mainPc = "done"

----------------------------------------------------------------------------
(* C7 *)

\* C7: no two running workers have the same output image file.
C7_ExclusiveOutput ==
    \A i, j \in 1..Len(futures) :
        (i # j /\ futures[i].state = "Running" /\ futures[j].state = "Running")
            => OutPath(i) # OutPath(j)

----------------------------------------------------------------------------
(* C8 *)

\* C8: in a differential run no step changes the old image file of a
\* submitted partition.
C8_OldImageUnchanged ==
    [][\A i \in 1..Len(futures) :
          (args.diff /\ disk[OldPath(i)].exists)
              => disk'[OldPath(i)] = disk[OldPath(i)]]_vars

----------------------------------------------------------------------------
(* C9 *)

\* the first 4 bytes are not b"CrAU", or the 8-byte big-endian version is
\* not 2
BadHeader ==
    \/ payload.magic # << 67, 114, 65, 85 >>
    \/ payload.version # << 0, 0, 0, 0, 0, 0, 0, 2 >>

\* C9: with a bad magic or version no worker is ever submitted, no image
\* file is ever created or changed, and main can only abort.
C9_BadHeaderAborts ==
    [][BadHeader =>
          /\ futures' = << >>
          /\ disk' = disk
          /\ mainPc' \in {"start", "aborted"}]_vars

\* main has aborted on a version other than 2, old images being present
C9_Witness ==
    /\ payload.magic = CrAU
    /\ payload.version # << 0, 0, 0, 0, 0, 0, 0, 2 >>
    /\ mainPc = "aborted"
    /\ mainErr = "AssertionError: Unsupported file format version"
    /\ \E p \in Paths : disk[p].exists

----------------------------------------------------------------------------
(* C10 *)

\* C10: a worker that starts in differential mode while its old image file
\* is absent runs on with no old image handle.
C10_NoHandleWhenAbsent ==
    [][\A i \in 1..Len(futures) :
          (/\ args.diff
           /\ futures[i].state = "Pending"
           /\ futures'[i].state # "Pending"
           /\ ~disk[OldPath(i)].exists)
          => (futures'[i].state = "Running" /\ ~futures'[i].old_file.open)]_vars

----------------------------------------------------------------------------
(* C11 *)

\* the operations of the partition of worker i
OpsOf(i) == manifest.ops[futures[i].name]

\* worker i has left dump_part
Terminal(i) == futures[i].state \in {"Completed", "Failed"}

\* C11: a running worker has executed no more operations than its list has
\* (so that its loop either has a next operation or is over), and every step
\* of it either executes one more operation of its finite list or ends it in
\* exactly one of Completed and Failed, which it never leaves; it is
\* Completed only with every operation executed without an error, its output
\* image handle and its old image handle closed, and the partition's name
\* as the value returned.
C11_WorkerTerminates ==
    /\ [](\A i \in 1..Len(futures) :
            /\ futures[i].state = "Running" =>
                  /\ futures[i].completed <= Len(OpsOf(i))
                  /\ futures[i].out_file = Handle(OutPath(i))
            /\ futures[i].state = "Completed" =>
                  /\ futures[i].completed = Len(OpsOf(i))
                  /\ futures[i].err = ""
                  /\ futures[i].out_file = NoHandle
                  /\ futures[i].old_file = NoHandle
                  /\ futures[i].result = futures[i].name
            /\ futures[i].state = "Failed" =>
                  /\ futures[i].err # ""
                  /\ futures[i].result = "")
    /\ [][\A i \in 1..Len(futures) :
            /\ (futures[i].state = "Running" /\ futures'[i] # futures[i]) =>
                  \/ /\ futures'[i].state = "Running"
                     /\ futures'[i].completed = futures[i].completed + 1
                     /\ futures[i].completed < Len(OpsOf(i))
                     /\ OpOutcome(i).err = "ok"
                  \/ /\ futures'[i].state = "Failed"
                     /\ futures[i].completed < Len(OpsOf(i))
                     /\ OpOutcome(i).err # "ok"
                  \/ /\ futures'[i].state = "Completed"
                     /\ futures[i].completed = Len(OpsOf(i))
            /\ Terminal(i) => futures'[i] = futures[i]]_vars

\* a worker has completed a partition of two operations in a differential
\* run in which it had opened the old image
C11_Witness ==
    \E i \in 1..Len(futures) :
        /\ futures[i].state = "Completed"
        /\ Len(OpsOf(i)) = 2
        /\ args.diff
        /\ disk[OldPath(i)].exists
        /\ OldPath(i) # OutPath(i)
        /\ futures[i].result = "boot"

----------------------------------------------------------------------------
(* C12 *)

\* C12: whatever the other workers do and wherever the worker's last read
\* left the cursor of its payload handle, the bytes an operation reads are
\* the data_length bytes of the payload from the start of the data section
\* plus the operation's data_offset; the step moves no other worker's cursor.
C12_ReadsOwnRange ==
    [][\A i \in 1..Len(futures) :
          ExecutesOp(i) =>
              /\ futures'[i].raw = RawOf(i)
              /\ Len(futures'[i].raw) = NextOp(i).data_length
              /\ futures'[i].payload_pos =
                    DataOffset(PayloadBytes) + NextOp(i).data_offset
                        + NextOp(i).data_length
              /\ \A j \in 1..Len(futures) :
                    j # i => /\ futures'[j].payload_pos = futures[j].payload_pos
                             /\ futures'[j].raw = futures[j].raw]_vars

\* two workers run at the same time, both have read from the payload, and
\* one of them has executed a second operation, for which its cursor had to
\* move back
C12_Witness ==
    \E i, j \in 1..Len(futures) :
        /\ i # j
        /\ futures[i].state = "Running"
        /\ futures[j].state = "Running"
        /\ futures[i].completed = 2
        /\ futures[j].completed = 1
        /\ OpsOf(i)[2].data_offset < OpsOf(i)[1].data_offset + OpsOf(i)[1].data_length
        /\ futures[i].raw # << >>
        /\ futures[j].raw # << >>

----------------------------------------------------------------------------
(* C13 *)

\* the new bytes the patch of the next operation of worker i yields from
\* the old data of its source extents
NewOf(i) ==
    patch(OldData(NextOp(i).src_extents, disk[futures[i].old_file.path].data,
                  manifest.block_size),
          bsdf2_read_patch(RawOf(i)))

\* C13: a SOURCE_BSDIFF or BROTLI_BSDIFF operation that succeeds with the
\* old image present leaves the output image as it is after writing, for
\* each destination extent in order, the slice of the new bytes alone that
\* starts at the summed block count of the earlier extents and is at most
\* the extent long: no byte is written that the new bytes do not hold.
C13_BsdiffWritesNewOnly ==
    [][\A i \in 1..Len(futures) :
          (/\ ExecutesOp(i)
           /\ NextOp(i).type \in BsdiffTypes
           /\ futures[i].old_file.open
           /\ futures[i].old_file.path # OutPath(i)
           /\ futures'[i].state = "Running")
          => disk'[OutPath(i)].data =
                SplitLoop(NextOp(i).dst_extents, NewOf(i).data, 0, disk,
                          OutPath(i), manifest.block_size)[OutPath(i)].data]_vars

----------------------------------------------------------------------------
(* C14 *)

\* C14: a REPLACE, REPLACE_XZ, REPLACE_BZ or ZSTD operation that succeeds
\* leaves its decoded data D in the output image as one run from byte
\* dst_extents[0].start_block * block_size on, whatever the length of the
\* file was: the file reaches at least to the end of the run, every byte it
\* held outside the run is unchanged, and no other file is changed.
C14_ReplaceOneRun ==
    [][\A i \in 1..Len(futures) :
          (/\ ExecutesOp(i)
           /\ NextOp(i).type \in ReplaceTypes
           /\ futures'[i].state = "Running")
          => LET D == ReplaceData(NextOp(i), RawOf(i)).data
                 off == NextOp(i).dst_extents[1].start_block * manifest.block_size
                 before == disk[OutPath(i)].data
                 after == disk'[OutPath(i)].data
             IN  /\ Len(after) = IF D = << >> THEN Len(before)
                                  ELSE Max(Len(before), off + Len(D))
                 /\ \A k \in 1..Len(D) : after[off + k] = D[k]
                 /\ \A k \in 1..Len(before) :
                       (k <= off \/ k > off + Len(D)) => after[k] = before[k]
                 /\ \A p \in Paths : p # OutPath(i) => disk'[p] = disk[p]]_vars

\* a worker has executed a replace operation as its second operation, the
\* run of which began inside the bytes the first operation had written
C14_Witness ==
    \E i \in 1..Len(futures) :
        /\ futures[i].state = "Running"
        /\ futures[i].completed = 2
        /\ OpsOf(i)[1].type = "REPLACE"
        /\ OpsOf(i)[2].type = "REPLACE_XZ"
        /\ manifest.block_size = 1
        /\ disk[OutPath(i)].data = << 1, 7, 7, 9 >>

----------------------------------------------------------------------------
(* C15 *)

\* the next operation of worker i is a bsdiff operation that reaches the
\* patch reader: the old image is open and the hash check passes
ReadsPatch(i) ==
    /\ NextOp(i).type \in BsdiffTypes
    /\ futures[i].old_file.open
    /\ NextOp(i).dst_extents # << >>
    /\ ~HashMismatch(i)

\* the patch of the next operation of worker i is a BSDF2 patch
Bsdf2Patch(i) ==
    /\ Len(RawOf(i)) >= 8
    /\ ReadAt(RawOf(i), 0, 5) = BSDF2_MAGIC

\* C15: when an operation's BSDF2 patch declares, for the control, diff or
\* extra block, an algorithm other than 0, 1 and 2, bsdf2_decompress raises
\* for that algorithm and returns no value, and the operation fails with the
\* output image unchanged.
C15_UnsupportedCodecRaises ==
    [][\A i \in 1..Len(futures) :
          (/\ ExecutesOp(i)
           /\ ReadsPatch(i)
           /\ Bsdf2Patch(i)
           /\ \E k \in 6..8 : RawOf(i)[k] \notin {0, 1, 2})
          => /\ \A k \in 6..8 :
                   RawOf(i)[k] \notin {0, 1, 2} =>
                       bsdf2_decompress(RawOf(i)[k], ReadRest(RawOf(i), 32)).r
                           = "raise"
             /\ futures'[i].state = "Failed"
             /\ disk' = disk]_vars

----------------------------------------------------------------------------
(* C16 *)

\* C16: of the 8-byte values a patch can start with, the reader takes the
\* legacy magic, with bzip2 for all three blocks, and b'BSDF2' followed by
\* the algorithms of the control, the diff and the extra block in this
\* order; an operation whose patch starts with any other 8 bytes fails with
\* the incorrect-magic error and changes no file, and no operation with one
\* of the two forms fails with that error.
C16_MagicForms ==
    [][\A i \in 1..Len(futures) :
          (ExecutesOp(i) /\ ReadsPatch(i) /\ Len(RawOf(i)) >= 8) =>
              LET magic == ReadAt(RawOf(i), 0, 8) IN
              IF magic = BSDIFF_MAGIC
              THEN /\ PatchAlgs(magic) = Algs(1, 1, 1)
                   /\ futures'[i].err # "ValueError: incorrect magic"
              ELSE IF ReadAt(magic, 0, 5) = BSDF2_MAGIC
              THEN /\ PatchAlgs(magic) = Algs(magic[6], magic[7], magic[8])
                   /\ futures'[i].err # "ValueError: incorrect magic"
              ELSE /\ futures'[i].state = "Failed"
                   /\ futures'[i].err = "ValueError: incorrect magic"
                   /\ disk' = disk]_vars

\* a bsdiff operation on the patch b"XXXXXXXX" has failed on the magic, the
\* output image holding what the operation before it wrote
C16_Witness ==
    \E i \in 1..Len(futures) :
        /\ futures[i].state = "Failed"
        /\ futures[i].err = "ValueError: incorrect magic"
        /\ futures[i].raw = BadPatchBlob
        /\ futures[i].completed = 1
        /\ futures[i].old_file.open
        /\ disk[OutPath(i)].data = RawBlob

----------------------------------------------------------------------------
(* C17 *)

\* the patch ends before its three length fields do, or it declares a
\* control block or a diff block longer than the bytes left for it
Truncated(blob) ==
    \/ Len(blob) < 32
    \/ LET len_control == decode_int64(ReadAt(blob, 8, 8)).v
           len_diff == decode_int64(ReadAt(blob, 16, 8)).v
       IN  \/ len_control > Len(blob) - 32
           \/ len_control >= 0 /\ len_diff > Len(blob) - 32 - len_control

\* the first 8 bytes of the patch are one of the two magics
MagicOk(blob) == PatchAlgs(ReadAt(blob, 0, 8)).err = "ok"

\* C17: for a patch with a valid magic that is truncated, bsdf2_read_patch
\* raises and returns no result, and the operation fails with no file
\* changed.
C17_TruncatedPatchRaises ==
    [][\A i \in 1..Len(futures) :
          (/\ ExecutesOp(i)
           /\ ReadsPatch(i)
           /\ MagicOk(RawOf(i))
           /\ Truncated(RawOf(i)))
          => /\ bsdf2_read_patch(RawOf(i)).err # "ok"
             /\ futures'[i].state = "Failed"
             /\ disk' = disk]_vars

----------------------------------------------------------------------------
(* C18 *)

\* C18: an operation whose type is none of the eight supported ones fails
\* with the unsupported-type error and changes no file, and main reports
\* that failure as the failure of the worker's partition: it is never what
\* ends the collection of the outcomes.
C18_UnsupportedTypeSurfaced ==
    [][/\ \A i \in 1..Len(futures) :
            (/\ ExecutesOp(i)
             /\ NextOp(i).type \notin SupportedTypes
             /\ ~HashMismatch(i))
            => /\ futures'[i].state = "Failed"
               /\ futures'[i].err = "SystemExit: -1"
               /\ disk' = disk
       /\ (mainPc = "collect" /\ mainPc' # "collect") =>
            /\ mainErr' # "SystemExit: -1"
            /\ \A i \in 1..Len(futures) :
                  futures[i].err = "SystemExit: -1" => i \in reported']_vars

----------------------------------------------------------------------------
(* C19 *)

\* C19: an operation changes no byte of the output image outside the byte
\* ranges of its destination extents: outside them, a byte the image held
\* is unchanged, and a byte the image did not hold is at most the zero of
\* the gap a seek past the end leaves.
C19_WritesInsideExtents ==
    [][\A i \in 1..Len(futures) :
          ExecutesOp(i) =>
              LET cov == Covered(NextOp(i).dst_extents, manifest.block_size)
                  before == disk[OutPath(i)].data
                  after == disk'[OutPath(i)].data
              IN  \A k \in (1..Len(after)) \ cov :
                     IF k <= Len(before) THEN after[k] = before[k]
                     ELSE after[k] = 0]_vars

====
